---- MODULE Spec2Model ----
\* Model of searx/ai_integration.py: enhance_results_with_ai and the backend
\* clients it calls.  One call of enhance_results_with_ai is followed from its
\* entry to its return (or to the exception that leaves it), one step per
\* loop stage; every backend reply is chosen by the environment.
EXTENDS Integers, Sequences, FiniteSets, TLC

VARIABLES
    HAS_HTTPX,          \* module global: the httpx import succeeded
    backend,            \* what the remote service does during this call
    results,            \* the caller's list, mutated in place
    results_in,         \* the list as it was passed in (history variable)
    query,
    ai_provider, ai_scoring, ai_summaries,
    anthropic_api_key, openai_api_key,
    pc,                 \* "entry", "loop", "score", "summary", "returned", "raised"
    idx,                \* 1-based position of the for loop in results_to_process
    title, content,     \* the loop's locals
    calls,              \* the HTTP posts made so far, in order
    reply,              \* outcome of the post made by the last step, or NoReply
    ret                 \* the value returned

vars == <<HAS_HTTPX, backend, results, results_in, query, ai_provider, ai_scoring,
          ai_summaries, anthropic_api_key, openai_api_key, pc, idx, title, content,
          calls, reply, ret>>

\* ---------------------------------------------------------------- bounds
\* longest list when every kind of result, configuration and reply is tried
MaxRich == 1
\* longest list when the backend is uniform (always down, always "low")
MaxLong == 6

\* ------------------------------------------------------- program constants
PrefixLen == 5
ScoreContentChars == 200
SummaryContentChars == 300
HTTP_OK == 200

\* ------------------------------------------------------------ Python values
\* A value is tagged with its type; text is a sequence of characters.
Str(s) == [t |-> "str", v |-> s]
None == [t |-> "none", v |-> <<>>]
IntVal(digits) == [t |-> "int", v |-> digits]
\* marks a key / attribute the result does not have
Absent == [t |-> "absent", v |-> <<>>]

\* Python truth value of a value
Truthy(x) ==
    CASE x.t = "str" -> x.v # <<>>
      [] x.t = "int" -> x.v # <<"0">>
      [] OTHER -> FALSE

Min(a, b) == IF a < b THEN a ELSE b

\* s[:n]
Take(s, n) == SubSeq(s, 1, Min(n, Len(s)))

Whitespace == {" ", "\t", "\n", "\r", "\f"}

RECURSIVE LStrip(_)
LStrip(s) == IF s # <<>> /\ Head(s) \in Whitespace THEN LStrip(Tail(s)) ELSE s

RECURSIVE RStrip(_)
RStrip(s) ==
    IF s # <<>> /\ s[Len(s)] \in Whitespace THEN RStrip(SubSeq(s, 1, Len(s) - 1)) ELSE s

\* str.strip()
Strip(s) == RStrip(LStrip(s))

UpperLetters == <<"A","B","C","D","E","F","G","H","I","J","K","L","M",
                  "N","O","P","Q","R","S","T","U","V","W","X","Y","Z">>
LowerLetters == <<"a","b","c","d","e","f","g","h","i","j","k","l","m",
                  "n","o","p","q","r","s","t","u","v","w","x","y","z">>

LowerChar(c) ==
    IF \E i \in 1..Len(UpperLetters) : UpperLetters[i] = c
    THEN LowerLetters[CHOOSE i \in 1..Len(UpperLetters) : UpperLetters[i] = c]
    ELSE c

\* str.lower()
Lower(s) == [i \in 1..Len(s) |-> LowerChar(s[i])]

\* sub in s
Contains(s, sub) ==
    \E i \in 1..(Len(s) - Len(sub) + 1) : SubSeq(s, i, i + Len(sub) - 1) = sub

\* how an f-string renders a value
Format(x) == IF x.t = "none" THEN <<"N","o","n","e">> ELSE x.v

T_high == <<"h","i","g","h">>
T_medium == <<"m","e","d","i","u","m">>
T_low == <<"l","o","w">>

\* ------------------------------------------------------------------ results
FieldNames == {"title", "content", "url", "ai_score", "ai_summary"}

\* result.get(name, '') of a mapping
DictGet(result, name) ==
    IF result.fields[name] = Absent THEN Str(<<>>) ELSE result.fields[name]

\* getattr(result, name, '') or '' of an object
AttrGet(result, name) ==
    LET x == IF result.fields[name] = Absent THEN Str(<<>>) ELSE result.fields[name]
    IN IF Truthy(x) THEN x ELSE Str(<<>>)

ReadField(result, name) ==
    IF result.shape = "mapping" THEN DictGet(result, name) ELSE AttrGet(result, name)

\* a mutant: the annotation replaces the result's text
SetFieldOverContent(result, name, value) ==
    [result EXCEPT !.fields["content"] = value]

\* result[name] = value  /  setattr(result, name, value)
SetField(result, name, value) ==
    IF result.shape = "mapping"
    THEN [result EXCEPT !.fields[name] = value]
    ELSE [result EXCEPT !.fields[name] = value]

\* a mutant: only None counts as empty
SkippedNoneOnly(t, c) == t = None /\ c = None

\* if not title and not content: continue
Skipped(t, c) == ~Truthy(t) /\ ~Truthy(c)

\* a mutant: the whole list is processed
results_unbounded(rs) == rs

\* results[:5]
results_to_process(rs) == Take(rs, PrefixLen)

\* ---------------------------------------------------------- backend replies
\* An outcome of httpx.post: it raises, or gives a status and a body.  The body
\* is described by how far the path to the text the client extracts exists:
\*   "notjson"        response.json() raises
\*   "notobject"      the JSON document is not an object
\*   "nofield"        the object lacks 'response' / 'content' / 'choices'
\*   "emptylist"      'content' / 'choices' is []
\*   "itemnotobject"  the first item of the list is not an object
\*   "nofirsttext"    the first item lacks 'text' / 'message'
\*   "ok"             the path exists and ends in .value
Outcome(raises, status, body, value) ==
    [raises |-> raises, status_code |-> status, body |-> body, value |-> value]

NoReply == Outcome(FALSE, 0, "none", None)
Timeout == Outcome(TRUE, 0, "none", None)
Http500 == Outcome(FALSE, 500, "notjson", None)
Ok(x) == Outcome(FALSE, HTTP_OK, "ok", x)

R_High == <<" ","H","i","g","h","\n">>
R_MediumLow == <<"m","e","d","i","u","m"," ","l","o","w">>
R_LowHigh == <<"l","o","w"," ","H","I","G","H">>
R_Summary == <<" ","A"," ","b",".","\n">>
R_Blank == <<" ","\n">>

ReplyTexts == {<<>>, R_Blank, R_High, R_MediumLow, R_LowHigh, R_Summary}

LeafValues == {None, IntVal(<<"0">>), IntVal(<<"4","2">>)} \cup {Str(s) : s \in ReplyTexts}

CommonBodies == {"notjson", "notobject", "nofield"}
ListBodies == {"emptylist", "itemnotobject", "nofirsttext"}

Outcomes(provider) ==
    {Timeout, Http500}
    \cup {Outcome(FALSE, HTTP_OK, b, None) : b \in CommonBodies}
    \cup (IF provider \in {"anthropic", "openai"}
          THEN {Outcome(FALSE, HTTP_OK, b, None) : b \in ListBodies}
          ELSE {})
    \cup {Ok(x) : x \in LeafValues}

BackendOutcomes(provider) ==
    CASE backend = "any" -> Outcomes(provider)
      [] backend = "down" -> {Http500}
      [] backend = "low" -> {Ok(Str(T_low))}

\* ------------------------------------------------------------------ clients
\* Each client returns the value its code returns for the outcome o of its post.
call_ollama(o) ==
    IF ~HAS_HTTPX THEN None
    ELSE IF o.raises THEN None
    ELSE IF o.status_code = HTTP_OK
         THEN CASE o.body = "ok" -> o.value
                [] o.body = "nofield" -> Str(<<>>)
                [] OTHER -> None
         ELSE None

call_anthropic(o, api_key) ==
    IF ~HAS_HTTPX \/ api_key = "" THEN None
    ELSE IF o.raises THEN None
    ELSE IF o.status_code = HTTP_OK
         THEN CASE o.body = "ok" -> o.value
                [] o.body = "nofirsttext" -> Str(<<>>)
                [] OTHER -> None
         ELSE None

call_openai(o, api_key) ==
    IF ~HAS_HTTPX \/ api_key = "" THEN None
    ELSE IF o.raises THEN None
    ELSE IF o.status_code = HTTP_OK
         THEN CASE o.body = "ok" -> o.value
                [] o.body = "nofirsttext" -> Str(<<>>)
                [] OTHER -> None
         ELSE None

call_ai(o, provider, a_key, o_key) ==
    CASE provider = "ollama" -> call_ollama(o)
      [] provider = "anthropic" -> call_anthropic(o, a_key)
      [] provider = "openai" -> call_openai(o, o_key)
      [] OTHER -> None

\* whether call_ai reaches httpx.post
HttpPosted(provider, a_key, o_key) ==
    /\ HAS_HTTPX
    /\ \/ provider = "ollama"
       \/ provider = "anthropic" /\ a_key # ""
       \/ provider = "openai" /\ o_key # ""

\* ------------------------------------------------- prompts and interpreters
\* content[:n] inside the f-string raises TypeError unless content is text
PromptFails(c) == c.t # "str"

ScorePrompt(q, t, c) ==
    [kind |-> "score", query |-> q, title |-> Format(t),
     content |-> Take(c.v, ScoreContentChars)]

SummaryPrompt(t, c) ==
    [kind |-> "summary", title |-> Format(t),
     content |-> Take(c.v, SummaryContentChars)]

\* The value of a call is [exc, val]: exc names the exception that leaves the
\* call ("" when it returns), val is what it returns.
Returns(x) == [exc |-> "", val |-> x]
Raises(e) == [exc |-> e, val |-> None]

\* a mutant: the keywords are looked for in the order low, medium, high
score_result_low_first(q, t, c, o, provider, a_key, o_key) ==
    IF PromptFails(c) THEN Raises("TypeError")
    ELSE LET response == call_ai(o, provider, a_key, o_key)
         IN IF Truthy(response)
            THEN IF response.t # "str" THEN Raises("AttributeError")
                 ELSE LET s == Lower(Strip(response.v))
                      IN IF Contains(s, T_low) THEN Returns(Str(T_low))
                         ELSE IF Contains(s, T_medium) THEN Returns(Str(T_medium))
                         ELSE IF Contains(s, T_high) THEN Returns(Str(T_high))
                         ELSE Returns(None)
            ELSE Returns(None)

score_result(q, t, c, o, provider, a_key, o_key) ==
    IF PromptFails(c) THEN Raises("TypeError")
    ELSE LET response == call_ai(o, provider, a_key, o_key)
         IN IF Truthy(response)
            THEN IF response.t # "str" THEN Raises("AttributeError")
                 ELSE LET s == Lower(Strip(response.v))
                      IN IF Contains(s, T_high) THEN Returns(Str(T_high))
                         ELSE IF Contains(s, T_medium) THEN Returns(Str(T_medium))
                         ELSE IF Contains(s, T_low) THEN Returns(Str(T_low))
                         ELSE Returns(None)
            ELSE Returns(None)

summarize_result(t, c, o, provider, a_key, o_key) ==
    IF PromptFails(c) THEN Raises("TypeError")
    ELSE Returns(call_ai(o, provider, a_key, o_key))

\* ------------------------------------------------------------ initial states
T_t == <<"t">>
T_c == <<"c">>
T_q == <<"q">>
T_u == <<"u">>
T_old == <<"o","l","d">>

Result(shape, t, c, score, summary) ==
    [shape |-> shape,
     fields |-> [title |-> t, content |-> c, url |-> Str(T_u),
                 ai_score |-> score, ai_summary |-> summary]]

Shapes == {"mapping", "attr"}
TitleVals == {Absent, None, Str(<<>>), Str(T_t)}
ContentVals == {Absent, None, Str(<<>>), Str(T_c)}
PriorVals == {Absent, Str(T_old)}

\* every shape and every state of title and content, plus results that the
\* caller has already annotated
RichKinds ==
    {Result(s, t, c, Absent, Absent) : s \in Shapes, t \in TitleVals, c \in ContentVals}
    \cup {Result(s, Str(T_t), Str(T_c), Str(T_old), Str(T_old)) : s \in Shapes}

LongKinds ==
    {Result("mapping", Str(T_t), Str(T_c), Absent, Absent),
     Result("attr", Absent, None, Absent, Absent)}

Lists(kinds, n) == UNION {[1..m -> kinds] : m \in 0..n}

Config(has, provider, scoring, summaries, a_key, o_key) ==
    [has |-> has, provider |-> provider, scoring |-> scoring, summaries |-> summaries,
     a_key |-> a_key, o_key |-> o_key]

\* ollama and the disabled provider under every pair of flags; the two hosted
\* providers with a key under one flag at a time, without a key under both;
\* an unknown provider; a runtime without httpx
RichConfigs ==
    {Config(TRUE, p, sc, su, "", "") : p \in {"none", "ollama"}, sc \in BOOLEAN, su \in BOOLEAN}
    \cup {Config(TRUE, "anthropic", sc, ~sc, "k", "") : sc \in BOOLEAN}
    \cup {Config(TRUE, "openai", sc, ~sc, "", "k") : sc \in BOOLEAN}
    \cup {Config(TRUE, p, TRUE, TRUE, "", "") : p \in {"anthropic", "openai", "other"}}
    \cup {Config(FALSE, "ollama", TRUE, TRUE, "", "")}

LongConfigs ==
    {Config(TRUE, "ollama", sc, su, "", "") : sc \in BOOLEAN, su \in BOOLEAN}
    \cup {Config(TRUE, "none", TRUE, TRUE, "", "")}

Start(rs, c, b) ==
    /\ HAS_HTTPX = c.has
    /\ backend = b
    /\ results = rs
    /\ results_in = rs
    /\ query = T_q
    /\ ai_provider = c.provider
    /\ ai_scoring = c.scoring
    /\ ai_summaries = c.summaries
    /\ anthropic_api_key = c.a_key
    /\ openai_api_key = c.o_key
    /\ pc = "entry"
    /\ idx = 0
    /\ title = None
    /\ content = None
    /\ calls = <<>>
    /\ reply = NoReply
    /\ ret = <<>>

Init ==
    \/ \E rs \in Lists(RichKinds, MaxRich), c \in RichConfigs : Start(rs, c, "any")
    \/ \E rs \in Lists(LongKinds, MaxLong), c \in LongConfigs, b \in {"down", "low"} :
          Start(rs, c, b)

\* ------------------------------------------------- enhance_results_with_ai
Inputs == <<HAS_HTTPX, backend, results_in, query, ai_provider, ai_scoring,
            ai_summaries, anthropic_api_key, openai_api_key>>

\* a mutant: a disabled call returns an empty list
EarlyReturnEmpty(rs) == <<>>

\* return results (the early returns)
EarlyReturn(rs) == rs

\* the guards before the loop
Enter ==
    /\ pc = "entry"
    /\ IF ~HAS_HTTPX \/ ai_provider = "none" \/ (~ai_scoring /\ ~ai_summaries)
       THEN pc' = "returned" /\ ret' = EarlyReturn(results) /\ idx' = idx
       ELSE pc' = "loop" /\ idx' = 1 /\ ret' = ret
    /\ UNCHANGED <<Inputs, results, title, content, calls, reply>>

\* the head of one iteration: read title and content, skip an empty result
ReadResult ==
    /\ pc = "loop"
    /\ idx <= Len(results_to_process(results))
    /\ LET result == results_to_process(results)[idx]
           t == ReadField(result, "title")
           c == ReadField(result, "content")
       IN /\ title' = t
          /\ content' = c
          /\ IF Skipped(t, c)
             THEN pc' = "loop" /\ idx' = idx + 1
             ELSE pc' = "score" /\ idx' = idx
    /\ reply' = NoReply
    /\ UNCHANGED <<Inputs, results, calls, ret>>

\* What one stage of an iteration does to its result: the result afterwards,
\* the exception that leaves the stage ("" when none) and the prompts posted.
Stage(result, exc, posts) == [result |-> result, exc |-> exc, posts |-> posts]

\* if ai_scoring: score = _score_result(...); if score: result['ai_score'] = score
ScoreStage(result, q, t, c, o) ==
    IF ~ai_scoring THEN Stage(result, "", <<>>)
    ELSE LET r == score_result(q, t, c, o, ai_provider, anthropic_api_key, openai_api_key)
             posts == IF ~PromptFails(c)
                         /\ HttpPosted(ai_provider, anthropic_api_key, openai_api_key)
                      THEN <<ScorePrompt(q, t, c)>>
                      ELSE <<>>
         IN IF r.exc # "" THEN Stage(result, r.exc, posts)
            ELSE IF Truthy(r.val) THEN Stage(SetField(result, "ai_score", r.val), "", posts)
            ELSE Stage(result, "", posts)

\* a mutant: the summary is asked for whenever summaries are enabled
SummaryWantedAlways(flag, c) == flag

\* if ai_summaries and content
SummaryWanted(flag, c) == flag /\ Truthy(c)

\* summary = _summarize_result(...); if summary: result['ai_summary'] = summary.strip()
SummaryStage(result, t, c, o) ==
    IF ~SummaryWanted(ai_summaries, c) THEN Stage(result, "", <<>>)
    ELSE LET r == summarize_result(t, c, o, ai_provider, anthropic_api_key, openai_api_key)
             posts == IF ~PromptFails(c)
                         /\ HttpPosted(ai_provider, anthropic_api_key, openai_api_key)
                      THEN <<SummaryPrompt(t, c)>>
                      ELSE <<>>
         IN IF r.exc # "" THEN Stage(result, r.exc, posts)
            ELSE IF Truthy(r.val)
                 THEN IF r.val.t # "str" THEN Stage(result, "AttributeError", posts)
                      ELSE Stage(SetField(result, "ai_summary", Str(Strip(r.val.v))), "", posts)
            ELSE Stage(result, "", posts)

\* One whole iteration on one result, given the outcomes of its two posts.
EnhanceOne(result, q, o1, o2) ==
    LET t == ReadField(result, "title")
        c == ReadField(result, "content")
    IN IF Skipped(t, c) THEN Stage(result, "", <<>>)
       ELSE LET s1 == ScoreStage(result, q, t, c, o1)
            IN IF s1.exc # "" THEN s1
               ELSE LET s2 == SummaryStage(s1.result, t, c, o2)
                    IN Stage(s2.result, s2.exc, s1.posts \o s2.posts)

Call(i, prompt) == [index |-> i, kind |-> prompt.kind, prompt |-> prompt]

\* the outcomes a stage can meet: those of its post, if it makes one
PostOutcomes(stage) ==
    IF stage.posts # <<>> THEN BackendOutcomes(ai_provider) ELSE {NoReply}

\* the scoring stage of the current iteration
Score ==
    /\ pc = "score"
    /\ \E o \in PostOutcomes(ScoreStage(results[idx], query, title, content, NoReply)) :
          LET st == ScoreStage(results[idx], query, title, content, o)
          IN /\ results' = [results EXCEPT ![idx] = st.result]
             /\ calls' = IF st.posts = <<>> THEN calls ELSE Append(calls, Call(idx, st.posts[1]))
             /\ reply' = IF st.posts = <<>> THEN NoReply ELSE o
             /\ pc' = IF st.exc # "" THEN "raised" ELSE "summary"
    /\ UNCHANGED <<Inputs, idx, title, content, ret>>

\* the summary stage of the current iteration
Summary ==
    /\ pc = "summary"
    /\ \E o \in PostOutcomes(SummaryStage(results[idx], title, content, NoReply)) :
          LET st == SummaryStage(results[idx], title, content, o)
          IN /\ results' = [results EXCEPT ![idx] = st.result]
             /\ calls' = IF st.posts = <<>> THEN calls ELSE Append(calls, Call(idx, st.posts[1]))
             /\ reply' = IF st.posts = <<>> THEN NoReply ELSE o
             /\ IF st.exc # ""
                THEN pc' = "raised" /\ idx' = idx
                ELSE pc' = "loop" /\ idx' = idx + 1
    /\ UNCHANGED <<Inputs, title, content, ret>>

\* return results (after the loop)
Return ==
    /\ pc = "loop"
    /\ idx > Len(results_to_process(results))
    /\ pc' = "returned"
    /\ ret' = results
    /\ UNCHANGED <<Inputs, results, idx, title, content, calls, reply>>

Next == Enter \/ ReadResult \/ Score \/ Summary \/ Return

Spec == Init /\ [][Next]_vars

\* ------------------------------------------------------------------- claims
Processed == 1..Min(PrefixLen, Len(results_in))

Disabled == ai_provider = "none" \/ (~ai_scoring /\ ~ai_summaries)

\* a field that is absent, null or empty text
EmptyField(result, name) == result.fields[name] \in {Absent, None, Str(<<>>)}

Processable(result) == ~EmptyField(result, "title") \/ ~EmptyField(result, "content")

\* the value the client hands back for the last post
Replied == call_ai(reply, ai_provider, anthropic_api_key, openai_api_key)

LastCall == calls[Len(calls)]

AfterScorePost == pc = "summary" /\ reply # NoReply
AfterSummaryPost == pc = "loop" /\ reply # NoReply

\* C1: no exception ever leaves enhance_results_with_ai, whatever the results,
\* the configuration and the outcome of each backend call.
C1_NoErrorEscapes == pc # "raised"

\* C2: with provider 'none' or both flags false, the call returns its input:
\* the same list, every result with the fields it had, and no post is made.
C2_DisabledIsIdentity ==
    Disabled =>
        /\ results = results_in
        /\ calls = <<>>
        /\ pc = "returned" => ret = results_in

C2_Witness ==
    /\ pc = "returned"
    /\ HAS_HTTPX
    /\ ai_provider = "none"
    /\ ai_scoring
    /\ ai_summaries
    /\ \E i \in DOMAIN results_in : Processable(results_in[i])

\* C3: exactly the first min(5, len) results are selected; the loop never reads
\* past them, no post is made for a later entry, and the entries from the sixth
\* on are what they were.
C3_OnlyPrefixTouched ==
    /\ Len(results) = Len(results_in)
    /\ \A i \in DOMAIN results_in : i > PrefixLen => results[i] = results_in[i]
    /\ idx <= Min(PrefixLen, Len(results_in)) + 1
    /\ \A k \in DOMAIN calls : calls[k].index \in Processed
    /\ pc = "returned" /\ ~Disabled /\ HAS_HTTPX => idx = Min(PrefixLen, Len(results_in)) + 1

C3_Witness ==
    /\ pc = "returned"
    /\ Len(results_in) > PrefixLen
    /\ \A i \in DOMAIN results_in : Processable(results_in[i])
    /\ \A i \in Processed : results[i].fields.ai_score = Str(T_low)
    /\ Len(calls) = PrefixLen

\* C4 as stated: every field a result had before the call, ai_score and
\* ai_summary included, has the same value afterwards.
C4_EveryPriorFieldKept ==
    \A i \in DOMAIN results_in : \A f \in FieldNames :
        results_in[i].fields[f] # Absent => results[i].fields[f] = results_in[i].fields[f]

\* C4 amended: the shape and every field other than ai_score and ai_summary are
\* what they were (present with the same value, or still absent); an ai_score
\* or ai_summary the caller had put there is never removed, and its value is
\* replaced only by a value the call produced.
C4_ForeignFieldsKept ==
    /\ Len(results) = Len(results_in)
    /\ \A i \in DOMAIN results_in :
        /\ results[i].shape = results_in[i].shape
        /\ \A f \in FieldNames \ {"ai_score", "ai_summary"} :
              results[i].fields[f] = results_in[i].fields[f]
        /\ \A f \in {"ai_score", "ai_summary"} :
              results_in[i].fields[f] # Absent =>
                  /\ results[i].fields[f] # Absent
                  /\ results[i].fields[f] # results_in[i].fields[f] =>
                        \E k \in DOMAIN calls : calls[k].index = i

C4_Witness ==
    /\ pc = "returned"
    /\ \E i \in DOMAIN results_in :
        /\ results_in[i].fields.ai_score = Str(T_old)
        /\ results[i].fields.ai_score = Str(T_high)
        /\ results_in[i].fields.ai_summary = Str(T_old)
        /\ results[i].fields.ai_summary = Str(T_old)

\* C5: after a summary post that returned text, ai_summary holds the trimmed
\* text if that is non-empty and is otherwise left as it was; ai_summary is
\* never the empty string.
C5_SummaryIffNonBlank ==
    /\ AfterSummaryPost /\ Replied.t = "str" =>
          LET i == LastCall.index
          IN IF Strip(Replied.v) # <<>>
             THEN results[i].fields.ai_summary = Str(Strip(Replied.v))
             ELSE results[i].fields.ai_summary = results_in[i].fields.ai_summary
    /\ \A i \in DOMAIN results : results[i].fields.ai_summary # Str(<<>>)

OtherShape(result) ==
    [result EXCEPT !.shape = IF @ = "mapping" THEN "attr" ELSE "mapping"]

SameOutcome(s1, s2) ==
    /\ (s1.exc = "") = (s2.exc = "")
    /\ Len(s1.posts) = Len(s2.posts)
    /\ \A k \in DOMAIN s1.posts : s1.posts[k].kind = s2.posts[k].kind
    /\ s1.result.fields.ai_score = s2.result.fields.ai_score
    /\ s1.result.fields.ai_summary = s2.result.fields.ai_summary

\* C6: the result about to be processed and the result of the other shape with
\* the same fields get, for the same backend outcomes, the same posts (as many,
\* of the same kinds, in the same order), the same annotations, and both
\* return.
C6_ShapeIrrelevant ==
    pc = "loop" /\ idx <= Len(results_to_process(results)) =>
        \A o1 \in BackendOutcomes(ai_provider) : \A o2 \in BackendOutcomes(ai_provider) :
            SameOutcome(EnhanceOne(results[idx], query, o1, o2),
                        EnhanceOne(OtherShape(results[idx]), query, o1, o2))

\* C7: a result whose title and content are both empty is what it was, and no
\* post is made for it, whatever the flags.
C7_EmptyResultSkipped ==
    \A i \in DOMAIN results_in :
        ~Processable(results_in[i]) =>
            /\ results[i] = results_in[i]
            /\ \A k \in DOMAIN calls : calls[k].index # i

C7_Witness ==
    /\ pc = "returned"
    /\ ai_scoring
    /\ ai_summaries
    /\ calls # <<>>
    /\ \E i \in DOMAIN results_in : i < idx /\ ~Processable(results_in[i])

\* the tier of a reply: lower-cased and trimmed, high before medium before low
Tier(text) ==
    LET s == Strip(Lower(text))
    IN CASE Contains(s, T_high) -> Str(T_high)
         [] ~Contains(s, T_high) /\ Contains(s, T_medium) -> Str(T_medium)
         [] ~Contains(s, T_high) /\ ~Contains(s, T_medium) /\ Contains(s, T_low) -> Str(T_low)
         [] OTHER -> None

\* C8: after a scoring post, ai_score is the tier of the reply when the reply
\* is text with a tier, and is otherwise left as it was; a value the call
\* wrote to ai_score is one of high, medium, low.
C8_ScoreIsTier ==
    /\ AfterScorePost =>
          results[idx].fields.ai_score =
              IF Replied.t = "str" /\ Tier(Replied.v) # None
              THEN Tier(Replied.v)
              ELSE results_in[idx].fields.ai_score
    /\ \A i \in DOMAIN results :
          results[i].fields.ai_score \in
              {results_in[i].fields.ai_score, Str(T_high), Str(T_medium), Str(T_low)}

C8_Witness ==
    /\ AfterScorePost
    /\ reply = Ok(Str(R_MediumLow))
    /\ results[idx].fields.ai_score = Str(T_medium)

\* C9: the posts are made in list order over the selected prefix, the scoring
\* post of a result before its summary post, at most one of each per result
\* (a scoring post only if scoring is enabled, a summary post only if
\* summaries are enabled and the content is non-empty): at most 10 in all.
C9_CallOrder ==
    /\ Len(calls) <= 2 * PrefixLen
    /\ \A j \in DOMAIN calls : \A k \in DOMAIN calls :
          j < k =>
              \/ calls[j].index < calls[k].index
              \/ /\ calls[j].index = calls[k].index
                 /\ calls[j].kind = "score"
                 /\ calls[k].kind = "summary"
    /\ \A k \in DOMAIN calls :
          /\ calls[k].index \in Processed
          /\ calls[k].kind = "score" => ai_scoring
          /\ calls[k].kind = "summary" =>
                ai_summaries /\ ~EmptyField(results_in[calls[k].index], "content")

C9_Witness ==
    /\ pc = "returned"
    /\ Len(calls) = 2 * PrefixLen
    /\ Len(results_in) > PrefixLen

\* a post that failed: it raised, the status is not 200, or the body does not
\* carry text where the client looks for it
Failure(o) == o.raises \/ o.status_code # HTTP_OK \/ o.body # "ok" \/ o.value.t # "str"

\* C10: a failed post costs only its own annotation: the call goes on (the
\* later posts are still made) and the field the post was for is what it was.
C10_FailureIsolated ==
    reply # NoReply /\ Failure(reply) =>
        /\ pc # "raised"
        /\ LET i == LastCall.index
               f == IF LastCall.kind = "score" THEN "ai_score" ELSE "ai_summary"
           IN results[i].fields[f] = results_in[i].fields[f]

====
